---- MODULE Spec2Model ----
(***************************************************************************)
(* A model of the timerfd crate: the conversion layer of src/structs.rs    *)
(* (TimerState <-> itimerspec) and the TimerFd handle of src/lib.rs, run   *)
(* against a model of the kernel's timerfd object (timerfd_create(2)),     *)
(* which the crate reaches through its three extern calls and read(2).     *)
(*                                                                         *)
(* Time is discrete.  One second holds NanosPerSec sub-second units (the   *)
(* 10^9 of the real Duration, scaled), and a u64 / time_t holds TimeBits   *)
(* bits (the 64 of the real types, scaled), so that the wrap-around of     *)
(* `as libc::time_t` is inside the model's range.                          *)
(***************************************************************************)
EXTENDS Integers, FiniteSets, Sequences, TLC

\* ---------------------------------------------------------------- bounds
TimeBits == 3      \* width of u64 and of time_t (both 64 in the build)
NanosPerSec == 2   \* sub-second units per second (10^9 in the build)
MaxCallerUnits == 2  \* longest in-range duration a caller passes to set_state, in units
MaxNow == 2        \* the clock reading stays within 0..MaxNow
MaxTicks == 2      \* the kernel's expiration counter saturates here
MaxEintr == 2      \* signals delivered to one blocked read() call

RECURSIVE Pow2(_)
Pow2(n) == IF n = 0 THEN 1 ELSE 2 * Pow2(n - 1)

U64Mod == Pow2(TimeBits)           \* u64 values are 0 .. U64Mod-1
TimeTMin == -Pow2(TimeBits - 1)    \* time_t values are TimeTMin .. -TimeTMin-1

\* ------------------------------------------------- std::time::Duration
\* Duration { secs: u64, nanos: u32 } with nanos < one second.
Dur(s, n) == [secs |-> s, nanos |-> n]
ZeroDur == Dur(0, 0)
AllDurations == { Dur(s, n) : s \in 0..(U64Mod - 1), n \in 0..(NanosPerSec - 1) }

\* Duration::new(secs, nanos): whole seconds in nanos carry into secs.
DurationNew(secs, nanos) == Dur(secs + (nanos \div NanosPerSec), nanos % NanosPerSec)

\* ----------------------------------------------------- enum TimerState
\* One record shape for the three variants; the fields a variant does not
\* have are ZeroDur, so that record equality is the derived PartialEq.
Disarmed == [tag |-> "Disarmed", current |-> ZeroDur, interval |-> ZeroDur]
Oneshot(d) == [tag |-> "Oneshot", current |-> d, interval |-> ZeroDur]
Periodic(c, i) == [tag |-> "Periodic", current |-> c, interval |-> i]

AllTimerStates ==
  {Disarmed} \cup { Oneshot(d) : d \in AllDurations }
             \cup { Periodic(c, i) : c \in AllDurations, i \in AllDurations }

\* ------------------------------------------- struct timespec, itimerspec
Timespec(s, n) == [tv_sec |-> s, tv_nsec |-> n]
TS_NULL == Timespec(0, 0)
Itimerspec(value, interval) == [it_interval |-> interval, it_value |-> value]
ItimerspecNull == Itimerspec(TS_NULL, TS_NULL)

\* `x as libc::time_t` on a u64: the same bits read as a signed integer.
AsTimeT(u) == IF u >= -TimeTMin THEN u - U64Mod ELSE u
\* `x as u64` on a time_t.
AsU64(t) == IF t < 0 THEN t + U64Mod ELSE t

\* impl From<Duration> for timespec
TimespecFromDurationNoNanos(d) == Timespec(AsTimeT(d.secs), 0)
TimespecFromDuration(d) == Timespec(AsTimeT(d.secs), d.nanos)

\* tv_nsec.try_into::<u32>() fails on a negative tv_nsec (u32::MAX itself is
\* beyond the scaled range); the expect() then panics.
TimespecOverflows(ts) == ts.tv_nsec < 0

\* impl From<timespec> for Duration
DurationFromTimespec(ts) == DurationNew(AsU64(ts.tv_sec), ts.tv_nsec)

\* impl From<TimerState> for itimerspec
ItimerspecFromTimerStateNoInterval(ts) ==
  CASE ts.tag = "Disarmed" -> Itimerspec(TS_NULL, TS_NULL)
    [] ts.tag = "Oneshot"  -> Itimerspec(TimespecFromDuration(ts.current), TS_NULL)
    [] ts.tag = "Periodic" -> Itimerspec(TimespecFromDuration(ts.current), TS_NULL)
ItimerspecFromTimerState(ts) ==
  CASE ts.tag = "Disarmed" -> Itimerspec(TS_NULL, TS_NULL)
    [] ts.tag = "Oneshot"  -> Itimerspec(TimespecFromDuration(ts.current), TS_NULL)
    [] ts.tag = "Periodic" -> Itimerspec(TimespecFromDuration(ts.current),
                                         TimespecFromDuration(ts.interval))

\* impl From<itimerspec> for TimerState: the match arms in their order.
TimerStateFromItimerspecNoZeroArm(its) ==
  IF its.it_interval = TS_NULL THEN Oneshot(DurationFromTimespec(its.it_value))
  ELSE Periodic(DurationFromTimespec(its.it_value), DurationFromTimespec(its.it_interval))
TimerStateFromItimerspec(its) ==
  IF its.it_value = TS_NULL THEN Disarmed
  ELSE IF its.it_interval = TS_NULL THEN Oneshot(DurationFromTimespec(its.it_value))
  ELSE Periodic(DurationFromTimespec(its.it_value), DurationFromTimespec(its.it_interval))

\* Whether the lift panics ("timespec overflow when converting to Duration").
LiftPanics(its) ==
  /\ its.it_value # TS_NULL
  /\ \/ TimespecOverflows(its.it_value)
     \/ its.it_interval # TS_NULL /\ TimespecOverflows(its.it_interval)

\* ------------------------------------------------------- enum ClockId
ClockIds == {"Realtime", "RealtimeAlarm", "Monotonic", "Boottime", "BoottimeAlarm"}

\* The clocks a discontinuous change (settimeofday, clock_settime) moves.
IsRealtimeClock(c) == c \in {"Realtime", "RealtimeAlarm"}

\* ---------------------------------------------------- enum SetTimeFlags
SetTimeFlagsAll == {"Default", "Abstime", "TimerCancelOnSet"}

\* set_state's match on sflags; a flag word is the set of its bits.
SettimeFlagBitsNoAbstime(sflags) ==
  CASE sflags = "Default"          -> {}
    [] sflags = "Abstime"          -> {}
    [] sflags = "TimerCancelOnSet" -> {"TFD_TIMER_CANCEL_ON_SET"}
SettimeFlagBits(sflags) ==
  CASE sflags = "Default"          -> {}
    [] sflags = "Abstime"          -> {"TFD_TIMER_ABSTIME"}
    [] sflags = "TimerCancelOnSet" -> {"TFD_TIMER_ABSTIME", "TFD_TIMER_CANCEL_ON_SET"}

\* new_custom's flag word.
NewCustomFlags(nonblocking, cloexec) ==
  (IF nonblocking THEN {"TFD_NONBLOCK"} ELSE {}) \cup
  (IF cloexec THEN {"TFD_CLOEXEC"} ELSE {})

\* neg_is_err
NegIsErr(i) == IF i >= 0 THEN "Ok" ELSE "Err"

\* std::io::Error::kind() of the errnos read(2) gives here.
ErrorKind(errno) ==
  CASE errno = "EAGAIN" -> "WouldBlock"
    [] errno = "EINTR"  -> "Interrupted"
    [] OTHER            -> "Other"

\* ------------------------------------------ the kernel's timerfd object
\* What timerfd_create(2), timerfd_settime(2), timerfd_gettime(2) and
\* read(2) do to the object behind the descriptor.  rem is the time to the
\* next expiration (0: not running), intv the reload value, ticks the
\* expirations not yet read, nonblock the O_NONBLOCK file status flag (the
\* close-on-exec flag belongs to the descriptor, not to the object, and
\* nothing here reads it), abs whether the timer runs on an absolute
\* deadline, might_cancel whether it is cancelable on a clock change, and
\* canceled whether a clock change has been seen and not yet reported.
NoTimer ==
  [open |-> FALSE, clockid |-> "Monotonic", nonblock |-> FALSE, rem |-> 0, intv |-> 0,
   abs |-> FALSE, ticks |-> 0, might_cancel |-> FALSE, canceled |-> FALSE]

Min(a, b) == IF a < b THEN a ELSE b

ToUnits(ts) == ts.tv_sec * NanosPerSec + ts.tv_nsec
FromUnits(u) == Timespec(u \div NanosPerSec, u % NanosPerSec)

\* The kernel's check of a timespec handed to timerfd_settime.
TimespecValid(ts) == ts.tv_sec >= 0 /\ ts.tv_nsec >= 0 /\ ts.tv_nsec < NanosPerSec

\* timerfd_create(clockid, flags): a disarmed timer.
KCreate(clockid, flags) ==
  [open |-> TRUE, clockid |-> clockid, nonblock |-> "TFD_NONBLOCK" \in flags, rem |-> 0, intv |-> 0,
   abs |-> FALSE, ticks |-> 0, might_cancel |-> FALSE, canceled |-> FALSE]

\* timerfd_gettime: the time to the next expiration and the interval.
KCurrent(kt) == Itimerspec(FromUnits(kt.rem), FromUnits(kt.intv))

\* timerfd_settime(fd, flags, new, old) at clock reading t: the return
\* code, the errno, the old setting and the object afterwards.  An absolute
\* deadline that has passed expires at once.  ECANCELED is reported after
\* the new setting is installed.
KSettime(kt, t, flags, new) ==
  IF ~TimespecValid(new.it_value) \/ ~TimespecValid(new.it_interval)
  THEN [rc |-> -1, errno |-> "EINVAL", old |-> ItimerspecNull, k |-> kt]
  ELSE
    LET texp   == ToUnits(new.it_value)
        tintv  == ToUnits(new.it_interval)
        isabs  == "TFD_TIMER_ABSTIME" \in flags
        might  == /\ IsRealtimeClock(kt.clockid)
                  /\ isabs
                  /\ "TFD_TIMER_CANCEL_ON_SET" \in flags
        due    == isabs /\ texp <= t
        late   == t - texp
        rem1   == IF texp = 0 THEN 0
                  ELSE IF ~isabs THEN texp
                  ELSE IF ~due THEN texp - t
                  ELSE IF tintv = 0 THEN 0
                  ELSE tintv - (late % tintv)
        ticks1 == IF texp # 0 /\ due
                  THEN Min(MaxTicks, 1 + (IF tintv = 0 THEN 0 ELSE late \div tintv))
                  ELSE 0
        hit    == texp # 0 /\ might /\ kt.canceled
        k1     == [kt EXCEPT !.rem = rem1, !.intv = tintv, !.abs = isabs,
                             !.ticks = ticks1, !.might_cancel = might,
                             !.canceled = IF hit THEN FALSE ELSE kt.canceled]
    IN  IF hit
        THEN [rc |-> -1, errno |-> "ECANCELED", old |-> ItimerspecNull, k |-> k1]
        ELSE [rc |-> 0, errno |-> "", old |-> KCurrent(kt), k |-> k1]

\* Whether read(2) returns at once: a blocking descriptor waits for ticks.
KReadReturns(kt) == kt.nonblock \/ kt.ticks > 0

\* read(2) when it returns: the byte count (or -1), the errno, the buffer
\* and the object afterwards.  A pending cancellation wins over the ticks.
KRead(kt) ==
  IF kt.might_cancel /\ kt.canceled
  THEN [res |-> -1, errno |-> "ECANCELED", buffer |-> 0,
        k |-> [kt EXCEPT !.ticks = 0, !.canceled = FALSE]]
  ELSE IF kt.ticks > 0
  THEN [res |-> 8, errno |-> "", buffer |-> kt.ticks, k |-> [kt EXCEPT !.ticks = 0]]
  ELSE [res |-> -1, errno |-> "EAGAIN", buffer |-> 0, k |-> kt]

\* read(2) interrupted by a signal while it waits.
KReadInterrupted(kt) == [res |-> -1, errno |-> "EINTR", buffer |-> 0, k |-> kt]

\* One unit of time passes on the timer.
KElapse(kt) ==
  IF kt.rem = 0 THEN kt
  ELSE IF kt.rem > 1 THEN [kt EXCEPT !.rem = kt.rem - 1]
  ELSE [kt EXCEPT !.rem = kt.intv, !.ticks = Min(MaxTicks, kt.ticks + 1)]

\* The timer's clock is set delta units away from where it was: an absolute
\* deadline comes nearer or moves off, a cancelable timer is canceled.
KClockWasSet(kt, delta) ==
  LET moved == IF ~kt.abs \/ kt.rem = 0 THEN kt
               ELSE IF delta > 0 THEN KElapse(kt)
               ELSE [kt EXCEPT !.rem = kt.rem + 1]
  IN  IF kt.might_cancel
      THEN [moved EXCEPT !.ticks = Min(MaxTicks, moved.ticks + 1), !.canceled = TRUE]
      ELSE moved

\* ---------------------------------------------------------- the calls
\* The durations and states a caller hands to set_state: in-range seconds,
\* and the largest u64, which `as libc::time_t` turns negative.
CallerDurations ==
  { d \in AllDurations : d.secs * NanosPerSec + d.nanos <= MaxCallerUnits }
    \cup {Dur(U64Mod - 1, 0)}
CallerStates ==
  {Disarmed} \cup { Oneshot(d) : d \in CallerDurations }
             \cup { Periodic(c, i) : c \in CallerDurations, i \in CallerDurations }

\* What the call that returns in this step gives its caller: a TimerState, a
\* count, an io::Error, or a panic (NoRet in a step that returns nothing).
\* One record shape, the fields not in use at their zero.
Ret(op, kind, st, n, errno) ==
  [op |-> op, kind |-> kind, st |-> st, n |-> n, errno |-> errno]
NoRet == Ret("none", "Unit", Disarmed, 0, "")

\* TimerFd::set_state on the object kt at clock reading t: whether it
\* panics, the value it returns, and the object afterwards.
SetStateCall(kt, t, state, sflags) ==
  LET flags == SettimeFlagBits(sflags)
      new   == ItimerspecFromTimerState(state)
      r     == KSettime(kt, t, flags, new)
  IN  [panic |-> NegIsErr(r.rc) = "Err" \/ LiftPanics(r.old),
       value |-> TimerStateFromItimerspec(r.old), errno |-> r.errno, k |-> r.k]

\* TimerFd::get_state: timerfd_gettime does not fail on a timerfd.
GetStateCall(kt) ==
  LET state == KCurrent(kt)
  IN  [panic |-> NegIsErr(0) = "Err" \/ LiftPanics(state),
       value |-> TimerStateFromItimerspec(state)]

\* TimerFd::try_read on what read(2) gave.
TryReadResultZeroOk(r) ==
  CASE r.res = 8  -> [kind |-> "Ok", n |-> 0, errno |-> ""]
    [] r.res = -1 -> [kind |-> "Err", n |-> 0, errno |-> r.errno]
    [] OTHER      -> [kind |-> "Panic", n |-> 0, errno |-> ""]
TryReadResult(r) ==
  CASE r.res = 8  -> IF r.buffer # 0 THEN [kind |-> "Ok", n |-> r.buffer, errno |-> ""]
                     ELSE [kind |-> "Panic", n |-> 0, errno |-> ""]
    [] r.res = -1 -> [kind |-> "Err", n |-> 0, errno |-> r.errno]
    [] OTHER      -> [kind |-> "Panic", n |-> 0, errno |-> ""]

\* TimerFd::read's match on what try_read gave: return, go round, or panic.
ReadMatchWouldBlockPanics(tr) ==
  CASE tr.kind = "Ok" -> [act |-> "return", n |-> tr.n]
    [] tr.kind = "Err" /\ ErrorKind(tr.errno) = "Interrupted" -> [act |-> "retry", n |-> 0]
    [] OTHER -> [act |-> "panic", n |-> 0]
ReadMatchRetriesWouldBlock(tr) ==
  CASE tr.kind = "Ok" -> [act |-> "return", n |-> tr.n]
    [] tr.kind = "Err" /\ ErrorKind(tr.errno) \in {"WouldBlock", "Interrupted"} ->
         [act |-> "retry", n |-> 0]
    [] OTHER -> [act |-> "panic", n |-> 0]
ReadMatchInterruptedReturns(tr) ==
  CASE tr.kind = "Ok" -> [act |-> "return", n |-> tr.n]
    [] tr.kind = "Err" /\ ErrorKind(tr.errno) \in {"WouldBlock", "Interrupted"} ->
         [act |-> "return", n |-> 0]
    [] OTHER -> [act |-> "panic", n |-> 0]
ReadMatch(tr) ==
  CASE tr.kind = "Ok" -> [act |-> "return", n |-> tr.n]
    [] tr.kind = "Err" /\ ErrorKind(tr.errno) = "WouldBlock" -> [act |-> "return", n |-> 0]
    [] tr.kind = "Err" /\ ErrorKind(tr.errno) = "Interrupted" -> [act |-> "retry", n |-> 0]
    [] OTHER -> [act |-> "panic", n |-> 0]

\* ------------------------------------------------------------ the state
VARIABLES
  k,      \* the kernel object behind the handle's descriptor (NoTimer: no handle)
  now,    \* the reading of the handle's clock
  pc,     \* "idle", "read" (inside TimerFd::read's loop) or "panicked"
  ret,    \* what the call returning in this step gives its caller
  eintr,  \* how often the read() in progress has gone round its loop
  hist    \* what has happened to the handle since its last set_state

VARIABLES cin, cnat, cout, cpc

hvars == <<k, now, pc, ret, eintr, hist>>
cvars == <<cin, cnat, cout, cpc>>
vars == <<k, now, pc, ret, eintr, hist, cin, cnat, cout, cpc>>

\* hist: fresh (created and never set), req
\* and flags (the last set_state that returned), ttx (the time to expiry it
\* asked for), fired (the timer has expired since), back (the clock has been
\* set back since), drained (a read() has returned a count since).
NoHist ==
  [fresh |-> FALSE, req |-> Disarmed, flags |-> "Default",
   ttx |-> 0, fired |-> FALSE, back |-> FALSE, drained |-> FALSE]

Max(a, b) == IF a > b THEN a ELSE b

\* The time to expiry a set_state asks for at clock reading t.
TimeToExpiry(state, sflags, t) ==
  LET v == ToUnits(ItimerspecFromTimerState(state).it_value)
  IN  IF sflags = "Default" THEN v ELSE Max(v - t, 0)

\* -------------------------------------------------------------- actions
HandleInit ==
  /\ k = NoTimer
  /\ now = 0
  /\ pc = "idle"
  /\ ret = NoRet
  /\ eintr = 0
  /\ hist = NoHist

ConvIdle ==
  /\ cin = Disarmed
  /\ cnat = ItimerspecNull
  /\ cout = Disarmed
  /\ cpc = "off"

\* A panic unwinds the caller: the handle is dropped and the process ends.
Panicked ==
  /\ pc' = "panicked"
  /\ k' = NoTimer
  /\ eintr' = 0
  /\ hist' = NoHist

\* TimerFd::new_custom; created says whether timerfd_create gave a descriptor.
NewCustomCall(clock, nonblocking, cloexec, created) ==
  /\ pc = "idle"
  /\ ~k.open
  /\ IF created
     THEN /\ k' = KCreate(clock, NewCustomFlags(nonblocking, cloexec))
          /\ ret' = Ret("new", "Ok", Disarmed, 0, "")
          /\ hist' = [NoHist EXCEPT !.fresh = TRUE]
     ELSE /\ k' = k
          /\ ret' = Ret("new", "Err", Disarmed, 0, "EMFILE")
          /\ hist' = NoHist
  /\ UNCHANGED <<now, pc, eintr, cvars>>

NewCustom ==
  \E clock \in ClockIds, nonblocking \in BOOLEAN, cloexec \in BOOLEAN, created \in BOOLEAN :
    NewCustomCall(clock, nonblocking, cloexec, created)

\* TimerFd::new
New == \E created \in BOOLEAN : NewCustomCall("Monotonic", FALSE, FALSE, created)

\* TimerFd::set_state
SetState ==
  \E state \in CallerStates, sflags \in SetTimeFlagsAll :
    LET c == SetStateCall(k, now, state, sflags)
    IN  /\ pc = "idle"
        /\ k.open
        /\ IF c.panic
           THEN /\ Panicked
                /\ ret' = Ret("set_state", "Panic", Disarmed, 0, c.errno)
           ELSE /\ pc' = pc
                /\ k' = c.k
                /\ ret' = Ret("set_state", "State", c.value, 0, "")
                /\ hist' = [fresh |-> FALSE, req |-> state,
                            flags |-> sflags, ttx |-> TimeToExpiry(state, sflags, now),
                            fired |-> c.k.ticks > 0, back |-> FALSE, drained |-> FALSE]
                /\ eintr' = eintr
        /\ UNCHANGED <<now, cvars>>

\* TimerFd::get_state
GetState ==
  LET c == GetStateCall(k)
  IN  /\ pc = "idle"
      /\ k.open
      /\ IF c.panic
         THEN /\ Panicked
              /\ ret' = Ret("get_state", "Panic", Disarmed, 0, "")
         ELSE /\ ret' = Ret("get_state", "State", c.value, 0, "")
              /\ UNCHANGED <<k, pc, eintr, hist>>
      /\ UNCHANGED <<now, cvars>>

\* TimerFd::try_read, at the moment its read(2) returns: with the count or
\* an error, or interrupted while it waits on a blocking descriptor.
TryRead ==
  \E signal \in BOOLEAN :
    LET r  == IF signal THEN KReadInterrupted(k) ELSE KRead(k)
        tr == TryReadResult(r)
    IN  /\ pc = "idle"
        /\ k.open
        /\ IF signal THEN ~KReadReturns(k) ELSE KReadReturns(k)
        /\ IF tr.kind = "Panic"
           THEN Panicked
           ELSE k' = r.k /\ UNCHANGED <<pc, eintr, hist>>
        /\ ret' = Ret("try_read", tr.kind, Disarmed, tr.n, tr.errno)
        /\ UNCHANGED <<now, cvars>>

\* TimerFd::read is entered.
ReadCall ==
  /\ pc = "idle"
  /\ k.open
  /\ pc' = "read"
  /\ eintr' = 0
  /\ ret' = NoRet
  /\ UNCHANGED <<k, now, hist, cvars>>

\* One turn of read()'s loop on the try_read result tr, the object being kt
\* afterwards.
ReadTurn(tr, kt) ==
  LET m == ReadMatch(tr)
  IN  CASE m.act = "return" ->
             /\ k' = kt
             /\ pc' = "idle"
             /\ eintr' = 0
             /\ ret' = Ret("read", "Count", Disarmed, m.n, "")
             /\ hist' = IF m.n > 0 THEN [hist EXCEPT !.drained = TRUE] ELSE hist
        [] m.act = "retry" ->
             /\ k' = kt
             /\ pc' = "read"
             /\ eintr' = eintr + 1
             /\ ret' = NoRet
             /\ hist' = hist
        [] OTHER ->
             /\ Panicked
             /\ ret' = Ret("read", "Panic", Disarmed, 0, tr.errno)

\* A turn of the loop whose read(2) returns.
ReadIterCompleted ==
  /\ pc = "read"
  /\ KReadReturns(k)
  /\ ReadTurn(TryReadResult(KRead(k)), KRead(k).k)
  /\ UNCHANGED <<now, cvars>>

\* A turn of the loop whose read(2) is interrupted while it waits.
ReadIterInterrupted ==
  /\ pc = "read"
  /\ ~KReadReturns(k)
  /\ eintr < MaxEintr
  /\ ReadTurn(TryReadResult(KReadInterrupted(k)), KReadInterrupted(k).k)
  /\ UNCHANGED <<now, cvars>>

\* impl Drop for TimerFd
Drop ==
  /\ pc = "idle"
  /\ k.open
  /\ k' = NoTimer
  /\ ret' = Ret("drop", "Unit", Disarmed, 0, "")
  /\ hist' = NoHist
  /\ UNCHANGED <<now, pc, eintr, cvars>>

\* One unit of time passes.
Tick ==
  /\ pc # "panicked"
  /\ now < MaxNow
  /\ now' = now + 1
  /\ k' = KElapse(k)
  /\ hist' = [hist EXCEPT !.fired = hist.fired \/ KElapse(k).ticks > k.ticks
                                     \/ (k.rem = 1)]
  /\ ret' = NoRet
  /\ UNCHANGED <<pc, eintr, cvars>>

\* The real-time clock is set one unit forward or back.
ClockSet ==
  \E delta \in {-1, 1} :
    /\ pc # "panicked"
    /\ k.open
    /\ IsRealtimeClock(k.clockid)
    /\ now + delta \in 0..MaxNow
    /\ now' = now + delta
    /\ k' = KClockWasSet(k, delta)
    /\ hist' = [hist EXCEPT !.fired = hist.fired \/ (k.abs /\ k.rem = 1 /\ delta > 0),
                            !.back = hist.back \/ delta < 0]
    /\ ret' = NoRet
    /\ UNCHANGED <<pc, eintr, cvars>>

\* The conversion layer on its own: a TimerState is lowered, then lifted.
ConvInit ==
  /\ cin \in AllTimerStates
  /\ cnat = ItimerspecNull
  /\ cout = Disarmed
  /\ cpc = "start"

\* let native: itimerspec = state.into()
ConvLower ==
  /\ cpc = "start"
  /\ cnat' = ItimerspecFromTimerState(cin)
  /\ cpc' = "lowered"
  /\ UNCHANGED <<cin, cout, hvars>>

\* let target: TimerState = native.into()
ConvLift ==
  /\ cpc = "lowered"
  /\ IF LiftPanics(cnat)
     THEN cpc' = "panicked" /\ cout' = cout
     ELSE cpc' = "lifted" /\ cout' = TimerStateFromItimerspec(cnat)
  /\ UNCHANGED <<cin, cnat, hvars>>

ConvNext == ConvLower \/ ConvLift

InitConv == HandleInit /\ ConvInit

SpecConv == InitConv /\ [][ConvNext]_vars

Init == HandleInit /\ ConvIdle

Next ==
  \/ NewCustom
  \/ New
  \/ SetState
  \/ GetState
  \/ TryRead
  \/ ReadCall
  \/ ReadIterCompleted
  \/ ReadIterInterrupted
  \/ Drop
  \/ Tick
  \/ ClockSet

Spec == Init /\ [][Next]_vars

\* The thread inside read() keeps going round its loop: a turn whose read(2)
\* can return is taken.
SpecFair == Spec /\ WF_vars(ReadIterCompleted)

\* --------------------------------------------------------------- claims
Units(d) == d.secs * NanosPerSec + d.nanos

\* The TimerState values the lift can give: a non-zero value, and for
\* Periodic a non-zero interval too.
Liftable(ts) ==
  \/ ts.tag = "Disarmed"
  \/ ts.tag = "Oneshot" /\ ts.current # ZeroDur
  \/ ts.tag = "Periodic" /\ ts.current # ZeroDur /\ ts.interval # ZeroDur

\* C1 as claimed: lowering any TimerState, Oneshot(0) and Periodic with a
\* zero current or a zero interval included, and lifting the pair back gives
\* the value started from.
C1_RoundTripAll == cpc = "lifted" => cout = cin

\* C1 as amended: lowering then lifting gives back Disarmed, Oneshot(d) with
\* d non-zero and Periodic with both durations non-zero, whatever their
\* seconds and sub-second parts; a zero value comes back as Disarmed, and a
\* Periodic with a non-zero current and a zero interval as Oneshot(current).
C1_RoundTripLiftable ==
  /\ cpc # "panicked"
  /\ cpc = "lifted" =>
       /\ Liftable(cin) => cout = cin
       /\ cin.tag # "Disarmed" /\ cin.current = ZeroDur => cout = Disarmed
       /\ cin.tag = "Periodic" /\ cin.current # ZeroDur /\ cin.interval = ZeroDur
            => cout = Oneshot(cin.current)

C1_Witness ==
  /\ cpc = "lifted"
  /\ cin.tag = "Periodic"
  /\ cin.current.secs = U64Mod - 1
  /\ cin.current.nanos = NanosPerSec - 1
  /\ cin.interval # ZeroDur
  /\ cout = cin

\* C2: a get_state on a handle that new or new_custom created, whatever the
\* clock and the flags, and that has not been set since, returns Disarmed
\* (and does not panic).
C2_FreshDisarmed ==
  [][ (hist.fresh /\ ret'.op = "get_state")
        => (ret'.kind = "State" /\ ret'.st = Disarmed) ]_vars

C2_Witness ==
  /\ ret.op = "get_state"
  /\ ret.st = Disarmed
  /\ hist.fresh
  /\ k.clockid = "BoottimeAlarm"
  /\ k.nonblock
  /\ now > 0

\* A get_state that returns in this step while a Oneshot whose expiry lay in
\* the future when it was set has not expired yet.
QueryBeforeExpiry ==
  /\ ret'.op = "get_state"
  /\ hist.req.tag = "Oneshot"
  /\ hist.ttx > 0
  /\ ~hist.fired

\* C3 as claimed: that get_state returns a Oneshot whose remaining duration
\* is positive and no greater than the time to expiry that was set.
C3_ArmThenQuery ==
  [][ QueryBeforeExpiry
        => /\ ret'.kind = "State"
           /\ ret'.st.tag = "Oneshot"
           /\ Units(ret'.st.current) > 0
           /\ Units(ret'.st.current) <= hist.ttx ]_vars

\* C3 as amended: that get_state returns a Oneshot whose remaining duration
\* is positive; it is no greater than the time to expiry that was set when
\* the timer was set relative (Default), or when the clock has not been set
\* back since.
C3_ArmThenQueryNoSetBack ==
  [][ QueryBeforeExpiry
        => /\ ret'.kind = "State"
           /\ ret'.st.tag = "Oneshot"
           /\ Units(ret'.st.current) > 0
           /\ (hist.flags = "Default" \/ ~hist.back)
                => Units(ret'.st.current) <= hist.ttx ]_vars

C3_Witness ==
  /\ ret.op = "get_state"
  /\ ret.st.tag = "Oneshot"
  /\ hist.req.tag = "Oneshot"
  /\ hist.flags = "TimerCancelOnSet"
  /\ ~hist.fired
  /\ ~hist.back
  /\ Units(ret.st.current) > 0
  /\ Units(ret.st.current) < hist.ttx

\* A read() on a blocking handle leaves its loop in this step, the handle
\* having been armed with Oneshot(d), d > 0, and the timer having expired.
ReadAfterOneshotFired ==
  /\ pc = "read"
  /\ pc' # "read"
  /\ ~k.nonblock
  /\ hist.req.tag = "Oneshot"
  /\ hist.req.current # ZeroDur
  /\ hist.fired

\* A get_state returns in this step, a read() having returned a count since
\* the handle was armed with a Oneshot.
QueryAfterOneshotRead ==
  /\ ret'.op = "get_state"
  /\ hist.req.tag = "Oneshot"
  /\ hist.drained

C5_PeriodicStaysArmed ==
  [][ ( /\ ret'.op = "get_state"
        /\ hist.req.tag = "Periodic"
        /\ hist.req.current # ZeroDur
        /\ hist.req.interval # ZeroDur )
        => /\ ret'.kind = "State"
           /\ ret'.st.tag = "Periodic"
           /\ ret'.st.interval = hist.req.interval ]_vars

C5_Witness ==
  /\ ret.op = "get_state"
  /\ ret.st.tag = "Periodic"
  /\ hist.req.tag = "Periodic"
  /\ hist.req.current # hist.req.interval
  /\ ret.st.interval = hist.req.interval
  /\ hist.fired
  /\ hist.drained

\* C6: set_state(Oneshot(0s)) under any flags leaves the timer as
\* set_state(Disarmed) leaves it, and a get_state then returns Disarmed; on
\* a fresh handle it returns Disarmed as the old state and, under Default on
\* a non-blocking handle, the read() that follows returns 0.
C6_ZeroOneshotDisarms ==
  /\ (k.open /\ pc = "idle") =>
       /\ \A f \in SetTimeFlagsAll :
            LET a == SetStateCall(k, now, Oneshot(ZeroDur), f)
                b == SetStateCall(k, now, Disarmed, f)
            IN  /\ ~a.panic
                /\ a.k = b.k
                /\ ~GetStateCall(a.k).panic
                /\ GetStateCall(a.k).value = Disarmed
       /\ hist.fresh =>
            LET a == SetStateCall(k, now, Oneshot(ZeroDur), "Default")
            IN  /\ a.value = Disarmed
                /\ a.k.nonblock =>
                     /\ KReadReturns(a.k)
                     /\ ReadMatch(TryReadResult(KRead(a.k))) = [act |-> "return", n |-> 0]
  /\ (ret.op = "get_state" /\ hist.req = Oneshot(ZeroDur)) => ret.st = Disarmed
  /\ (ret.op = "read" /\ hist.req = Oneshot(ZeroDur) /\ hist.flags = "Default")
       => (ret.kind = "Count" /\ ret.n = 0)

C6_Witness ==
  /\ ret = Ret("read", "Count", Disarmed, 0, "")
  /\ hist.req = Oneshot(ZeroDur)
  /\ hist.flags = "Default"
  /\ k.clockid = "Monotonic"
  /\ k.nonblock

\* A turn of read()'s loop on a non-blocking handle with no expiration to
\* read.
ReadOfEmptyTimer ==
  /\ pc = "read"
  /\ now' = now
  /\ k.nonblock
  /\ k.ticks = 0

C8_FailuresSurfaced ==
  ret.op \in {"set_state", "get_state"} => ret.kind # "Panic"

\* C9: a turn of read()'s loop whose read(2) is interrupted neither returns
\* nor panics and leaves the timer alone; a turn whose read(2) returns the
\* count returns it, one whose read(2) would block returns 0, and no such
\* turn goes round again; and once a read(2) can return, read() ends.
C9_InterruptedReadRetried ==
  /\ [][ (pc = "read" /\ now' = now) =>
           IF KReadReturns(k)
           THEN /\ pc' # "read"
                /\ KRead(k).res = 8
                     => (pc' = "idle" /\ ret' = Ret("read", "Count", Disarmed, KRead(k).buffer, ""))
                /\ KRead(k).errno = "EAGAIN"
                     => (pc' = "idle" /\ ret' = Ret("read", "Count", Disarmed, 0, ""))
           ELSE /\ pc' = "read"
                /\ ret' = NoRet
                /\ k' = k
                /\ eintr' = eintr + 1 ]_vars
  /\ (pc = "read" /\ KReadReturns(k)) ~> (pc # "read")

C9_Witness ==
  /\ pc = "read"
  /\ eintr = MaxEintr
  /\ ~k.nonblock
  /\ k.ticks > 0

\* C10 as claimed: a read that the kernel fails with ECANCELED, in read() as
\* in try_read(), gives its caller an error, not a panic and not a count.
C10_CancelSurfaced ==
  (ret.op \in {"read", "try_read"} /\ ret.errno = "ECANCELED") => ret.kind = "Err"

====
